---- MODULE Spec2Model ----
(***************************************************************************)
(* khinsider-downloader: the album download pipeline of                    *)
(* src/khinsider_downloader.py.                                            *)
(*                                                                         *)
(* A text string is a sequence of one-character strings, so that the       *)
(* string functions of the program (replace, basename, splitext, unquote,  *)
(* lower) are computed character by character.  A path is a sequence of    *)
(* path components.  A dict is a function whose DOMAIN is its key set.     *)
(***************************************************************************)
EXTENDS Integers, Sequences, FiniteSets, TLC

(***************************************************************************)
(* Bounds of the model.                                                    *)
(***************************************************************************)
\* largest --max-worker value explored (0 is explored too)
MaxLimit == 2
\* largest number of rows of the song-list table of an album page
MaxRows == 2

(***************************************************************************)
(* Text helpers.                                                           *)
(*                                                                         *)
(* An operator that reads an argument more than once takes it through      *)
(* Only({... : v \in {argument}}), which evaluates the argument once.      *)
(***************************************************************************)
Only(S) == CHOOSE r \in S : TRUE

\* str.replace(old, new) for a one-character old
str_replace_value(s, old, new) ==
    LET done[k \in 0..Len(s)] ==
            IF k = 0 THEN <<>>
            ELSE done[k - 1] \o (IF s[k] = old THEN new ELSE <<s[k]>>)
    IN  done[Len(s)]

str_replace(s, old, new) ==
    Only({str_replace_value(v, old, new) : v \in {s}})

\* index of the last occurrence of character c in s, 0 when absent (str.rfind + 1)
rfind(s, c) ==
    LET hits == {k \in 1..Len(s) : s[k] = c}
    IN  IF hits = {} THEN 0 ELSE CHOOSE k \in hits : \A m \in hits : m <= k

UpperCase == <<"A","B","C","D","E","F","G","H","I","J","K","L","M",
               "N","O","P","Q","R","S","T","U","V","W","X","Y","Z">>
LowerCase == <<"a","b","c","d","e","f","g","h","i","j","k","l","m",
               "n","o","p","q","r","s","t","u","v","w","x","y","z">>

lower_char(c) ==
    IF \E u \in 1..Len(UpperCase) : UpperCase[u] = c
    THEN LowerCase[CHOOSE u \in 1..Len(UpperCase) : UpperCase[u] = c]
    ELSE c

\* str.lower()
lower(s) == Only({[k \in 1..Len(v) |-> lower_char(v[k])] : v \in {s}})

(***************************************************************************)
(* file_name_cleaner                                                       *)
(***************************************************************************)
windows_unusable_characters == <<"<", ">", ":", "\"", "/", "\\", "|", "?", "*">>

\* NUL, LF, TAB and CR stand for the characters '\0', '\n', '\t' and '\r'
linux_unusable_characters ==
    <<"/", "NUL", ":", "LF", "TAB", "CR", "?", "*", "|", ">", "<", "\"", "'">>

unusable_characters == windows_unusable_characters \o linux_unusable_characters

\* the loop over the characters: one str.replace after the other
replace_all(file_name, chars, replace_char) ==
    LET after[k \in 0..Len(chars)] ==
            IF k = 0 THEN file_name
            ELSE str_replace(after[k - 1], chars[k], replace_char)
    IN  after[Len(chars)]

file_name_cleaner(file_name, replace_char) ==
    Only({replace_all(v, unusable_characters, r) : v \in {file_name}, r \in {replace_char}})

\* the default value of file_name_cleaner's replace_char
DefaultReplaceChar == <<"_">>

(***************************************************************************)
(* os.path.basename, os.path.splitext, urllib.parse.unquote                *)
(***************************************************************************)
basename(p) == Only({SubSeq(v, rfind(v, "/") + 1, Len(v)) : v \in {p}})

\* os.path.splitext(p)[1]: from the last dot of the last component, unless
\* only dots precede it in that component
splitext_ext_value(p) ==
    LET sepIndex == rfind(p, "/")
        dotIndex == rfind(p, ".")
    IN  IF dotIndex > sepIndex
           /\ \E k \in (sepIndex + 1)..(dotIndex - 1) : p[k] # "."
        THEN SubSeq(p, dotIndex, Len(p))
        ELSE <<>>

splitext_ext(p) == Only({splitext_ext_value(v) : v \in {p}})

HexDigits == <<"0","1","2","3","4","5","6","7","8","9","A","B","C","D","E","F">>
HexLower == <<"0","1","2","3","4","5","6","7","8","9","a","b","c","d","e","f">>

IsHex(c) == \E d \in 1..16 : HexDigits[d] = c \/ HexLower[d] = c
HexVal(c) == (CHOOSE d \in 1..16 : HexDigits[d] = c \/ HexLower[d] = c) - 1

\* the character of a code: letters, digits and the punctuation the model's
\* texts use; any other code is kept apart as a character of its own
Chr(n) ==
    CASE n \in 65..90 -> UpperCase[n - 64]
      [] n \in 97..122 -> LowerCase[n - 96]
      [] n \in 48..57 -> HexDigits[n - 47]
      [] n = 32 -> " "
      [] n = 37 -> "%"
      [] n = 39 -> "'"
      [] n = 46 -> "."
      [] n = 47 -> "/"
      [] n = 58 -> ":"
      [] n = 63 -> "?"
      [] n = 95 -> "_"
      [] OTHER  -> "chr" \o ToString(n)

\* urllib.parse.unquote: every %XX with two hex digits is decoded, anything
\* else is kept
unquote_value(s) ==
    LET from[k \in 1..(Len(s) + 1)] ==
            IF k > Len(s) THEN <<>>
            ELSE IF k + 2 <= Len(s) /\ s[k] = "%" /\ IsHex(s[k + 1]) /\ IsHex(s[k + 2])
                 THEN <<Chr(16 * HexVal(s[k + 1]) + HexVal(s[k + 2]))>> \o from[k + 3]
                 ELSE <<s[k]>> \o from[k + 1]
    IN  from[1]

unquote(s) == Only({unquote_value(v) : v \in {s}})

(***************************************************************************)
(* get_format_from_link, song_download_page_handler                        *)
(***************************************************************************)
get_format_from_link(file_url) ==
    lower(str_replace(splitext_ext(file_url), ".", <<>>))

\* the marker of a download button whose parent has no href attribute
NoHref == <<"NoHref">>

\* A song page is the sequence of its .songDownloadLink elements, each given
\* by the href of its parent (or NoHref).
all_download_link(html_content) ==
    SelectSeq(html_content, LAMBDA x : x # NoHref)

\* dict(zip(formats, links)): the last link of a format wins
dict_zip_value(keys, values) ==
    LET n == IF Len(keys) < Len(values) THEN Len(keys) ELSE Len(values)
    IN  [f \in {keys[k] : k \in 1..n} |->
            values[CHOOSE k \in 1..n :
                      /\ keys[k] = f
                      /\ \A m \in 1..n : keys[m] = f => m <= k]]

\* a mapping in which the first link of a format is kept
dict_zip_first(keys, values) ==
    LET n == IF Len(keys) < Len(values) THEN Len(keys) ELSE Len(values)
    IN  [f \in {keys[k] : k \in 1..n} |->
            values[CHOOSE k \in 1..n :
                      /\ keys[k] = f
                      /\ \A m \in 1..n : keys[m] = f => k <= m]]

dict_zip(keys, values) ==
    Only({dict_zip_value(ks, vs) : ks \in {keys}, vs \in {values}})

\* the formats of the links, one get_format_from_link per link
all_available_format(links) ==
    Only({[k \in 1..Len(v) |-> get_format_from_link(v[k])] : v \in {links}})

song_download_page_handler(html_content) ==
    Only({dict_zip(all_available_format(links), links) :
            links \in {all_download_link(html_content)}})

(***************************************************************************)
(* The catalog the run talks to.                                           *)
(***************************************************************************)
KHINSIDER_SITE_ROOT == <<"h", "t", "t", "p", "s", ":", "/", "/", "k", "/">>

\* the marker of an element the page does not have
NoElement == <<"NoElement">>

\* hrefs of the song rows of an album page
SongA == <<"s", "/", "a">>
SongB == <<"s", "/", "b">>

\* A row of the song-list table is the href of its `.playlistDownloadSong a`
\* element, or NoElement.
RowKinds == {NoElement, SongA, SongB}

RECURSIVE SeqsUpTo(_, _)
SeqsUpTo(S, n) ==
    IF n = 0 THEN {<<>>}
    ELSE LET shorter == SeqsUpTo(S, n - 1)
         IN  shorter \cup {Append(q, x) : q \in {r \in shorter : Len(r) = n - 1}, x \in S}

\* An album page: the text of its `#pageContent h2` element (or NoElement),
\* whether it has a `#songlist` table, and the table's rows.
AlbumPages ==
    [h2 : {NoElement, <<"O", ":", "S">>}, has_table : {TRUE}, rows : SeqsUpTo(RowKinds, MaxRows)]
    \cup [h2 : {NoElement, <<"O", ":", "S">>}, has_table : {FALSE}, rows : {<<>>}]

\* The song page served for a song-page URL: song a has an mp3 and a flac
\* file, song b only an mp3 file.
WebSongPage(url) ==
    CASE url = KHINSIDER_SITE_ROOT \o SongA ->
            << <<"v", "/", "a", "%", "3", "A", "1", ".", "m", "p", "3">>,
               <<"v", "/", "a", "%", "3", "A", "1", ".", "f", "l", "a", "c">> >>
      [] url = KHINSIDER_SITE_ROOT \o SongB ->
            << <<"v", "/", "b", ".", "M", "P", "3">> >>
      [] OTHER -> <<>>

\* The outcomes of requests.get for a file: an exception, or a response with
\* its body and headers (Content-Length present or not, right or wrong).
NoResponse == [kind |-> "none"]
RequestException == [kind |-> "exception"]
ResponseBodies == {<<>>, <<255>>}
ResponseHeaders == {<<>>} \cup {[h \in {"Content-Length"} |-> n] : n \in 0..1}
FileResponses ==
    [kind : {"response"}, content : ResponseBodies, headers : ResponseHeaders]

\* the command line: --max-worker, --format, --save-dir
Formats == {<<"m", "p", "3">>, <<"f", "l", "a", "c">>}
ArgsSet ==
    [max_worker : 0..MaxLimit, format : Formats, save_dir : {<< <<"o", "u", "t">> >>}]

(***************************************************************************)
(* State.                                                                  *)
(***************************************************************************)
VARIABLES
    args,          \* the parsed command line
    pc,            \* the step main is at
    exc,           \* the exception propagating out of main, "none" if none
    exit_status,   \* "running", or how the process ended: "success", "failure"
    album_fetch,   \* what requests.get(args.album_link) did: "none" before it
    album_page,    \* the album page fetched
    album_title,   \* full_album_parsed['album_title']
    song_links,    \* the song-page URLs of album_page_handler
    pst,           \* per album_page_row_parser task: its position
    psem,          \* album_page_handler's semaphore: its counter
    pwaiters,      \* ... and the tasks waiting for it, first come first
    pfetch,        \* per task: what its requests.get thread produced
    presult,       \* per task: the mapping it returned
    gather_exc,    \* the exception of the gather main awaits, "none" if none
    songs,         \* full_album_parsed['songs']
    album_dir,     \* the directory the files go to
    dirs,          \* the directories mkdir was called for
    dst,           \* per download_single_song task: its position
    dsem,          \* main's semaphore: its counter
    dwaiters,      \* ... and the tasks waiting for it
    dfetch,        \* per task: what its requests.get thread produced
    files,         \* the files written: path -> bytes
    fn,            \* the function called on its own, "main" when the program runs
    fn_input,      \* ... its arguments
    fn_output      \* ... the values it returned, one per call

vars == <<args, pc, exc, exit_status, album_fetch, album_page, album_title, song_links,
          pst, psem, pwaiters, pfetch, presult, gather_exc, songs, album_dir, dirs,
          dst, dsem, dwaiters, dfetch, files, fn, fn_input, fn_output>>

callVars == <<fn, fn_input, fn_output>>
mainVars == <<pc, exc, exit_status>>
albumVars == <<album_fetch, album_page, album_title, song_links>>
parserVars == <<pst, psem, pwaiters, pfetch, presult>>
downloadVars == <<dst, dsem, dwaiters, dfetch>>
diskVars == <<dirs, files>>

NoMapping == <<>>
NoPath == <<>>

\* main has not run a statement yet
NotStarted ==
    /\ pc = "FetchAlbumPage"
    /\ exc = "none"
    /\ exit_status = "running"
    /\ album_fetch = "none"
    /\ album_page = [h2 |-> NoElement, has_table |-> FALSE, rows |-> <<>>]
    /\ album_title = <<>>
    /\ song_links = <<>>
    /\ pst = <<>>
    /\ psem = 0
    /\ pwaiters = <<>>
    /\ pfetch = <<>>
    /\ presult = <<>>
    /\ gather_exc = "none"
    /\ songs = <<>>
    /\ album_dir = NoPath
    /\ dirs = {}
    /\ dst = <<>>
    /\ dsem = 0
    /\ dwaiters = <<>>
    /\ dfetch = <<>>
    /\ files = <<>>

NoArguments == <<>>

\* the program is started with a command line
Init ==
    /\ args \in ArgsSet
    /\ NotStarted
    /\ fn = "main"
    /\ fn_input = NoArguments
    /\ fn_output = <<>>

(***************************************************************************)
(* asyncio.Semaphore, as `async with semaphore` uses it.                   *)
(***************************************************************************)
\* a limit below one taken as one
Semaphore_at_least_one(value) == IF value < 1 THEN 1 ELSE value

\* asyncio.Semaphore(value): the counter starts at the value given, zero
\* included
Semaphore(value) == value

\* a semaphore that never makes a task wait
sem_locked_never(value, waiters) == FALSE

\* Semaphore.locked()
sem_locked(value, waiters) == value = 0 \/ waiters # <<>>

\* a release that loses the permit
sem_release_value_lost(value, waiters) == value

\* Semaphore.release(): the counter goes up by one and, when a task waits,
\* goes down again as the first waiter is given the permit
sem_release_value(value, waiters) ==
    IF waiters = <<>> THEN value + 1 ELSE value

\* a release that wakes no waiter
sem_release_tasks_none_woken(st, waiters, i, how) == [st EXCEPT ![i] = how]

\* the positions of the tasks after task i ends as `how` and releases
sem_release_tasks(st, waiters, i, how) ==
    [k \in 1..Len(st) |->
        IF k = i THEN how
        ELSE IF waiters # <<>> /\ k = Head(waiters) THEN "acquired"
        ELSE st[k]]

sem_release_waiters(waiters) ==
    IF waiters = <<>> THEN <<>> ELSE Tail(waiters)

\* the tasks that hold a permit
Holders(st) == {k \in 1..Len(st) : st[k] \in {"acquired", "fetching", "fetched"}}

\* the tasks asyncio.run cancels when main ends with an exception
Pending(st) == {k \in 1..Len(st) : st[k] \notin {"ok", "failed", "cancelled"}}

\* a task's first step runs once the tasks created before it have run theirs
MayStart(st, i) == st[i] = "new" /\ \A j \in 1..(i - 1) : st[j] # "new"

\* the tasks created by one gather have all run their first step before any
\* of them is resumed
AllStarted(st) == \A k \in 1..Len(st) : st[k] # "new"

(***************************************************************************)
(* album_page_handler                                                      *)
(***************************************************************************)
parsed_album_title(html_content) ==
    IF html_content.h2 # NoElement THEN html_content.h2 ELSE <<>>

\* album_table.select('tr:nth-child(n+1)'): n+1 is 1, 2, 3, ... for n = 0, 1, 2, ...
all_rows(html_content) == html_content.rows

\* the rows taken without the test for the download link
parsed_song_links_unfiltered(html_content) ==
    IF ~html_content.has_table THEN <<>>
    ELSE [k \in 1..Len(all_rows(html_content)) |->
            KHINSIDER_SITE_ROOT \o all_rows(html_content)[k]]

parsed_song_links(html_content) ==
    IF ~html_content.has_table THEN <<>>
    ELSE IF Len(all_rows(html_content)) = 0 THEN <<>>
    ELSE LET hrefs == SelectSeq(all_rows(html_content), LAMBDA x : x # NoElement)
         IN  [k \in 1..Len(hrefs) |-> KHINSIDER_SITE_ROOT \o hrefs[k]]

\* results collected in the order the tasks end: the first free slot is taken
SetTaskResultByCompletion(results, i, value) ==
    LET free == {k \in 1..Len(results) : results[k] = <<>>}
        slot == CHOOSE k \in free : \A m \in free : k <= m
    IN  [results EXCEPT ![slot] = value]

\* the result of task i, as asyncio.gather hands it back: in the slot of the
\* i-th awaitable
SetTaskResult(results, i, value) == [results EXCEPT ![i] = value]

\* a gather that collects exceptions as results (return_exceptions=True)
gather_done_any(st) == \A k \in 1..Len(st) : st[k] \in {"ok", "failed"}

\* a gather that returns with the first task that has
gather_done_first(st) == \E k \in 1..Len(st) : st[k] = "ok"

\* gather has a result once every task has returned
gather_done(st) == \A k \in 1..Len(st) : st[k] = "ok"

\* a gather that drops the exception of a task
FirstException_dropped(current, e) == "none"

\* The wake-up of a task that a release has handed the permit is queued in
\* the event loop before the callbacks of the task that released, so it runs
\* before gather hears of that task's end.
NoneWoken(st) == \A k \in 1..Len(st) : st[k] # "acquired"

\* gather's exception is the one of the first task that failed
FirstException(current, e) == IF current = "none" THEN e ELSE current

(***************************************************************************)
(* main, up to the song pages                                              *)
(***************************************************************************)
\* a failed request that main carries on from
album_fetch_ignored(outcome) == FALSE

\* requests.get(args.album_link) raising ends main
album_fetch_raises(outcome) == outcome = "exception"

\* requests.get(args.album_link), the catalog serving one of `pages`
fetch_album_page(pages) ==
    /\ pc = "FetchAlbumPage" /\ exc = "none"
    /\ \E outcome \in {"exception", "response"} :
          /\ album_fetch' = outcome
          /\ IF album_fetch_raises(outcome)
             THEN /\ exc' = "RequestException"
                  /\ UNCHANGED <<pc, album_page>>
             ELSE /\ \E page \in pages : album_page' = page
                  /\ pc' = "ParseAlbum"
                  /\ exc' = exc
    /\ UNCHANGED <<args, callVars, exit_status, album_title, song_links, parserVars,
                   gather_exc, songs, album_dir, downloadVars, diskVars>>

FetchAlbumPage == fetch_album_page(AlbumPages)

\* album_page_handler, to the point where it awaits gather
ParseAlbum ==
    /\ pc = "ParseAlbum" /\ exc = "none"
    /\ album_title' = parsed_album_title(album_page)
    /\ song_links' = parsed_song_links(album_page)
    /\ psem' = Semaphore(args.max_worker)
    /\ pwaiters' = <<>>
    /\ pst' = [k \in 1..Len(song_links') |-> "new"]
    /\ pfetch' = [k \in 1..Len(song_links') |-> "none"]
    /\ presult' = [k \in 1..Len(song_links') |-> NoMapping]
    /\ gather_exc' = "none"
    /\ pc' = "GatherSongs"
    /\ UNCHANGED <<args, callVars, exc, exit_status, album_fetch, album_page, songs,
                   album_dir, downloadVars, diskVars>>

(***************************************************************************)
(* album_page_row_parser                                                   *)
(***************************************************************************)
\* first step of task i: `async with semaphore` takes a permit and the fetch
\* is handed to a thread, or the task queues up for a permit
ParserStart(i) ==
    /\ pc = "GatherSongs" /\ exit_status = "running"
    /\ i \in 1..Len(pst) /\ MayStart(pst, i)
    /\ IF ~sem_locked(psem, pwaiters)
       THEN /\ psem' = psem - 1
            /\ pst' = [pst EXCEPT ![i] = "fetching"]
            /\ UNCHANGED pwaiters
       ELSE /\ pwaiters' = Append(pwaiters, i)
            /\ pst' = [pst EXCEPT ![i] = "waiting"]
            /\ UNCHANGED psem
    /\ UNCHANGED <<args, callVars, mainVars, albumVars, pfetch, presult, gather_exc, songs,
                   album_dir, downloadVars, diskVars>>

\* a task that was given the permit by a release resumes and starts its fetch
ParserWake(i) ==
    /\ pc = "GatherSongs" /\ exit_status = "running"
    /\ i \in 1..Len(pst) /\ pst[i] = "acquired"
    /\ pst' = [pst EXCEPT ![i] = "fetching"]
    /\ UNCHANGED <<args, callVars, mainVars, albumVars, psem, pwaiters, pfetch, presult,
                   gather_exc, songs, album_dir, downloadVars, diskVars>>

\* the thread running requests.get(song_url) ends
ParserFetchReturns(i) ==
    /\ pc = "GatherSongs" /\ exit_status = "running"
    /\ i \in 1..Len(pst) /\ pst[i] = "fetching" /\ AllStarted(pst)
    /\ \E outcome \in {"exception", "response"} :
          pfetch' = [pfetch EXCEPT ![i] = outcome]
    /\ pst' = [pst EXCEPT ![i] = "fetched"]
    /\ UNCHANGED <<args, callVars, mainVars, albumVars, psem, pwaiters, presult,
                   gather_exc, songs, album_dir, downloadVars, diskVars>>

\* the task resumes after to_thread: it parses the page and returns, or the
\* exception of requests.get leaves it; either way the permit is released
ParserResume(i) ==
    /\ pc = "GatherSongs" /\ exit_status = "running"
    /\ i \in 1..Len(pst) /\ pst[i] = "fetched"
    /\ IF pfetch[i] = "response"
       THEN /\ presult' = SetTaskResult(presult, i,
                            song_download_page_handler(WebSongPage(song_links[i])))
            /\ pst' = sem_release_tasks(pst, pwaiters, i, "ok")
            /\ UNCHANGED gather_exc
       ELSE /\ pst' = sem_release_tasks(pst, pwaiters, i, "failed")
            /\ gather_exc' = FirstException(gather_exc, "RequestException")
            /\ UNCHANGED presult
    /\ psem' = sem_release_value(psem, pwaiters)
    /\ pwaiters' = sem_release_waiters(pwaiters)
    /\ UNCHANGED <<args, callVars, mainVars, albumVars, pfetch, songs, album_dir,
                   downloadVars, diskVars>>

\* gather hands the results back once every task has returned
GatherSongsReturn ==
    /\ pc = "GatherSongs" /\ exc = "none"
    /\ gather_done(pst)
    /\ songs' = presult
    /\ pc' = "ValidateFormat"
    /\ UNCHANGED <<args, callVars, exc, exit_status, albumVars, parserVars, gather_exc,
                   album_dir, downloadVars, diskVars>>

\* gather raises the first exception of a task into album_page_handler, which
\* passes it on to main
GatherSongsRaise ==
    /\ pc = "GatherSongs" /\ exc = "none"
    /\ gather_exc # "none" /\ NoneWoken(pst)
    /\ exc' = gather_exc
    /\ UNCHANGED <<args, callVars, pc, exit_status, albumVars, parserVars, gather_exc,
                   songs, album_dir, downloadVars, diskVars>>

(***************************************************************************)
(* main: format check, destination directory                               *)
(***************************************************************************)
\* a check that looks at the first song only
format_available_first(all_songs, format) ==
    Len(all_songs) = 0 \/ format \in DOMAIN all_songs[1]

\* the loop of main that looks args.format up in every song
format_available(all_songs, format) ==
    \A k \in 1..Len(all_songs) : format \in DOMAIN all_songs[k]

ValidateFormat ==
    /\ pc = "ValidateFormat" /\ exc = "none"
    /\ IF format_available(songs, args.format)
       THEN pc' = "PrepareDestination" /\ exc' = exc
       ELSE exc' = "SystemExit" /\ pc' = pc
    /\ UNCHANGED <<args, callVars, exit_status, albumVars, parserVars, gather_exc, songs,
                   album_dir, downloadVars, diskVars>>

\* Path(p) / name: an empty name and "." add no component
path_join(p, name) ==
    IF name = <<>> \/ name = <<".">> THEN p ELSE Append(p, name)

\* file_name_cleaned is assigned for an empty title and never read: the
\* directory is made from the title in either case
album_dir_for(save_dir, title) ==
    LET file_name_cleaned ==
            IF title = <<>>
            THEN <<"d","o","w","n","l","o","a","d","e","d","_","a","l","b","u","m">>
            ELSE <<>>
    IN  path_join(save_dir, file_name_cleaner(title, DefaultReplaceChar))

PrepareDestination ==
    /\ pc = "PrepareDestination" /\ exc = "none"
    /\ dsem' = Semaphore(args.max_worker)
    /\ dwaiters' = <<>>
    /\ album_dir' = album_dir_for(args.save_dir, album_title)
    /\ dirs' = dirs \cup {album_dir'}
    /\ pc' = "DownloadAll"
    /\ UNCHANGED <<args, callVars, exc, exit_status, albumVars, parserVars, gather_exc,
                   songs, dst, dfetch, files>>

\* the link main hands to download task i
target_link(i) == songs[i][args.format]

\* main creates the download tasks and awaits their gather
DownloadAll ==
    /\ pc = "DownloadAll" /\ exc = "none"
    /\ dst' = [k \in 1..Len(songs) |-> "new"]
    /\ dfetch' = [k \in 1..Len(songs) |-> NoResponse]
    /\ gather_exc' = "none"
    /\ pc' = "GatherDownloads"
    /\ UNCHANGED <<args, callVars, exc, exit_status, albumVars, parserVars, songs,
                   album_dir, dsem, dwaiters, diskVars>>

(***************************************************************************)
(* download_single_song                                                    *)
(***************************************************************************)
\* basename, URL-decoded, cleaned
song_name(song_url) ==
    file_name_cleaner(unquote(basename(song_url)), DefaultReplaceChar)

song_path(dir, song_url) == path_join(dir, song_name(song_url))

\* download_single_song called with content_length_check left at its default
content_length_unchecked(song_content) == FALSE

\* content_length_check: the header is there and differs from the body's length
content_length_mismatch(song_content) ==
    /\ "Content-Length" \in DOMAIN song_content.headers
    /\ song_content.headers["Content-Length"] # Len(song_content.content)

\* open(song_name, 'wb').write(content)
file_write(disk, path, content) ==
    [q \in (DOMAIN disk) \cup {path} |-> IF q = path THEN content ELSE disk[q]]

DownloadStart(i) ==
    /\ pc = "GatherDownloads" /\ exit_status = "running"
    /\ i \in 1..Len(dst) /\ MayStart(dst, i)
    /\ IF ~sem_locked(dsem, dwaiters)
       THEN /\ dsem' = dsem - 1
            /\ dst' = [dst EXCEPT ![i] = "fetching"]
            /\ UNCHANGED dwaiters
       ELSE /\ dwaiters' = Append(dwaiters, i)
            /\ dst' = [dst EXCEPT ![i] = "waiting"]
            /\ UNCHANGED dsem
    /\ UNCHANGED <<args, callVars, mainVars, albumVars, parserVars, gather_exc, songs,
                   album_dir, dfetch, diskVars>>

DownloadWake(i) ==
    /\ pc = "GatherDownloads" /\ exit_status = "running"
    /\ i \in 1..Len(dst) /\ dst[i] = "acquired"
    /\ dst' = [dst EXCEPT ![i] = "fetching"]
    /\ UNCHANGED <<args, callVars, mainVars, albumVars, parserVars, gather_exc, songs,
                   album_dir, dsem, dwaiters, dfetch, diskVars>>

\* the thread running requests.get(song_url) ends
DownloadFetchReturns(i) ==
    /\ pc = "GatherDownloads" /\ exit_status = "running"
    /\ i \in 1..Len(dst) /\ dst[i] = "fetching" /\ AllStarted(dst)
    /\ \E outcome \in {RequestException} \cup FileResponses :
          dfetch' = [dfetch EXCEPT ![i] = outcome]
    /\ dst' = [dst EXCEPT ![i] = "fetched"]
    /\ UNCHANGED <<args, callVars, mainVars, albumVars, parserVars, gather_exc, songs,
                   album_dir, dsem, dwaiters, diskVars>>

\* the task resumes after to_thread: the exception of requests.get or a
\* content-length mismatch leaves it, else the file is written; either way
\* the permit is released and the task's song_content is gone
DownloadResume(i) ==
    /\ pc = "GatherDownloads" /\ exit_status = "running"
    /\ i \in 1..Len(dst) /\ dst[i] = "fetched"
    /\ IF dfetch[i] = RequestException
       THEN /\ dst' = sem_release_tasks(dst, dwaiters, i, "failed")
            /\ gather_exc' = FirstException(gather_exc, "RequestException")
            /\ UNCHANGED files
       ELSE IF content_length_mismatch(dfetch[i])
       THEN /\ dst' = sem_release_tasks(dst, dwaiters, i, "failed")
            /\ gather_exc' = FirstException(gather_exc, "ValueError")
            /\ UNCHANGED files
       ELSE /\ files' = file_write(files, song_path(album_dir, target_link(i)),
                                   dfetch[i].content)
            /\ dst' = sem_release_tasks(dst, dwaiters, i, "ok")
            /\ UNCHANGED gather_exc
    /\ dfetch' = [dfetch EXCEPT ![i] = NoResponse]
    /\ dsem' = sem_release_value(dsem, dwaiters)
    /\ dwaiters' = sem_release_waiters(dwaiters)
    /\ UNCHANGED <<args, callVars, mainVars, albumVars, parserVars, songs, album_dir, dirs>>

(***************************************************************************)
(* main: the end of the run                                                *)
(***************************************************************************)
GatherDownloadsReturn ==
    /\ pc = "GatherDownloads" /\ exc = "none"
    /\ gather_done(dst)
    /\ pc' = "Report"
    /\ UNCHANGED <<args, callVars, exc, exit_status, albumVars, parserVars, gather_exc,
                   songs, album_dir, downloadVars, diskVars>>

GatherDownloadsRaise ==
    /\ pc = "GatherDownloads" /\ exc = "none"
    /\ gather_exc # "none" /\ NoneWoken(dst)
    /\ exc' = gather_exc
    /\ UNCHANGED <<args, callVars, pc, exit_status, albumVars, parserVars, gather_exc,
                   songs, album_dir, downloadVars, diskVars>>

\* an exception that is swallowed at top level
exit_status_swallowed(e) == "success"

\* how the process ends when asyncio.run(main(args)) ends with exception e
exit_status_of(e) == IF e = "none" THEN "success" ELSE "failure"

\* "Download completed" is logged, main returns, asyncio.run returns
Report ==
    /\ pc = "Report" /\ exc = "none"
    /\ pc' = "Done"
    /\ exit_status' = exit_status_of(exc)
    /\ UNCHANGED <<args, callVars, exc, albumVars, parserVars, gather_exc, songs,
                   album_dir, downloadVars, diskVars>>

\* the positions of the tasks once asyncio.run has cancelled the pending ones
cancel_all_tasks(st) ==
    [k \in 1..Len(st) |-> IF k \in Pending(st) THEN "cancelled" ELSE st[k]]

\* main ended with an exception: asyncio.run cancels every task still
\* pending (each leaves its `async with`), and the exception ends the process
RunShutdown ==
    /\ exc # "none" /\ exit_status = "running"
    /\ pst' = cancel_all_tasks(pst)
    /\ psem' = psem + Cardinality(Holders(pst))
    /\ pwaiters' = <<>>
    /\ dst' = cancel_all_tasks(dst)
    /\ dsem' = dsem + Cardinality(Holders(dst))
    /\ dwaiters' = <<>>
    /\ dfetch' = [k \in 1..Len(dfetch) |-> NoResponse]
    /\ exit_status' = exit_status_of(exc)
    /\ UNCHANGED <<args, callVars, pc, exc, albumVars, pfetch, presult, gather_exc, songs,
                   album_dir, diskVars>>

\* the steps of a run once the album page has been asked for
AfterAlbumFetch ==
    \/ ParseAlbum
    \/ \E i \in 1..Len(pst) : ParserStart(i)
    \/ \E i \in 1..Len(pst) : ParserWake(i)
    \/ \E i \in 1..Len(pst) : ParserFetchReturns(i)
    \/ \E i \in 1..Len(pst) : ParserResume(i)
    \/ GatherSongsReturn
    \/ GatherSongsRaise
    \/ ValidateFormat
    \/ PrepareDestination
    \/ DownloadAll
    \/ \E i \in 1..Len(dst) : DownloadStart(i)
    \/ \E i \in 1..Len(dst) : DownloadWake(i)
    \/ \E i \in 1..Len(dst) : DownloadFetchReturns(i)
    \/ \E i \in 1..Len(dst) : DownloadResume(i)
    \/ GatherDownloadsReturn
    \/ GatherDownloadsRaise
    \/ Report
    \/ RunShutdown

Next ==
    \/ FetchAlbumPage
    \/ AfterAlbumFetch

Spec == Init /\ [][Next]_vars

\* The event loop runs every callback that is ready and every request of a
\* worker thread ends: a step that can be taken is taken.
FairSpec == Spec /\ WF_vars(Next)

(***************************************************************************)
(* The run on an album of one song more than MaxRows, every row of its     *)
(* table holding a download link: the queue of a semaphore of one permit   *)
(* then holds more than one task.                                          *)
(***************************************************************************)
LongAlbumPages ==
    { [h2 |-> <<"O", ":", "S">>, has_table |-> TRUE,
       rows |-> [k \in 1..(MaxRows + 1) |-> row]] : row \in {SongA, SongB} }

FetchLongAlbumPage == fetch_album_page(LongAlbumPages)

LongAlbumNext ==
    \/ FetchLongAlbumPage
    \/ AfterAlbumFetch

LongAlbumSpec == Init /\ [][LongAlbumNext]_vars

(***************************************************************************)
(* The functions of the module called on their own, as the code of another *)
(* module that imports them may call them: file_name_cleaner with any      *)
(* replace_char, song_download_page_handler with any song page, and        *)
(* download_single_song for the path it writes to and returns.             *)
(***************************************************************************)
\* longest file name made of NameChars
MaxNameLen == 2
\* most .songDownloadLink elements of a song page
MaxButtons == 3
\* most calls of file_name_cleaner made one after the other, each on the
\* value the call before it returned
MaxCalls == 2

UnusableSet == {unusable_characters[k] : k \in 1..Len(unusable_characters)}

NameChars == {"a", ":", "'"}

\* the file names handed to file_name_cleaner: every unusable character on
\* its own, and the texts of NameChars
FileNames ==
    {<<c>> : c \in UnusableSet \cup {"a", "_"}} \cup SeqsUpTo(NameChars, MaxNameLen)

\* the values of replace_char: the default, and other texts of type str
ReplaceChars == {DefaultReplaceChar, <<>>, <<"-">>, <<":">>, <<":", ":">>}

\* the hrefs of the parents of the download buttons of a song page
FileLinks ==
    { <<"v", "/", "a", ".", "m", "p", "3">>,
      <<"v", "/", "b", ".", "M", "P", "3">>,
      <<"v", "/", "c", ".", "f", "l", "a", "c">>,
      <<"w", ".", "x", "/", "d">>,
      <<"v", "/", ".", "m", "p", "3">> }

SongPages == SeqsUpTo(FileLinks \cup {NoHref}, MaxButtons)

\* the file URLs handed to download_single_song
TargetUrls ==
    { <<"v", "/", "a", "%", "3", "A", "1", ".", "m", "p", "3">>,
      <<"w", "/", "a", "%", "3", "A", "1", ".", "m", "p", "3">>,
      <<"v", "/", "a", "%", "3", "F", "1", ".", "m", "p", "3">>,
      <<"v", "/", "b", ".", "m", "p", "3">> }

\* the directory handed to download_single_song
TargetDir == << <<"o", "u", "t">>, <<"O", "_", "S">> >>

\* a caller makes calls of one function; main is not run
CallInit ==
    /\ args \in {a \in ArgsSet : a.max_worker = MaxLimit /\ a.format = <<"m", "p", "3">>}
    /\ NotStarted
    /\ fn_output = <<>>
    /\ \/ /\ fn = "file_name_cleaner"
          /\ fn_input \in [file_name : FileNames, replace_char : ReplaceChars]
       \/ /\ fn = "song_download_page_handler"
          /\ fn_input \in [html_content : SongPages]
       \/ /\ fn = "download_single_song"
          /\ fn_input \in [dir : {TargetDir},
                           song_urls : {<<u, v>> : u \in TargetUrls, v \in TargetUrls} ]

programVars == <<args, mainVars, albumVars, parserVars, gather_exc, songs, album_dir,
                 downloadVars, diskVars>>

\* file_name_cleaner(file_name, replace_char), then the same on what it returned
call_file_name_cleaner ==
    /\ fn = "file_name_cleaner"
    /\ Len(fn_output) < MaxCalls
    /\ LET file_name == IF fn_output = <<>> THEN fn_input.file_name
                        ELSE fn_output[Len(fn_output)]
       IN  fn_output' = Append(fn_output, file_name_cleaner(file_name, fn_input.replace_char))
    /\ UNCHANGED <<programVars, fn, fn_input>>

call_song_download_page_handler ==
    /\ fn = "song_download_page_handler"
    /\ fn_output = <<>>
    /\ fn_output' = <<song_download_page_handler(fn_input.html_content)>>
    /\ UNCHANGED <<programVars, fn, fn_input>>

\* download_single_song(song_url, semaphore, dir) for the next of the URLs:
\* what it returns is the path it has written to
call_download_single_song ==
    /\ fn = "download_single_song"
    /\ Len(fn_output) < Len(fn_input.song_urls)
    /\ fn_output' = Append(fn_output,
                           song_path(fn_input.dir, fn_input.song_urls[Len(fn_output) + 1]))
    /\ UNCHANGED <<programVars, fn, fn_input>>

CallNext ==
    \/ call_file_name_cleaner
    \/ call_song_download_page_handler
    \/ call_download_single_song

CallSpec == CallInit /\ [][CallNext]_vars

(***************************************************************************)
(* Properties.                                                             *)
(***************************************************************************)
SongsParsed ==
    pc \in {"ValidateFormat", "PrepareDestination", "DownloadAll",
            "GatherDownloads", "Report", "Done"}

\* C1: for every limit >= 1, in the song-page stage and in the download
\* stage alike, at most `limit` tasks are between taking a permit and giving
\* it back, whatever the order in which the tasks end.
C1_BoundedInFlight ==
    args.max_worker >= 1 =>
        /\ Cardinality(Holders(pst)) <= args.max_worker
        /\ Cardinality(Holders(dst)) <= args.max_worker

\* every permit of the download stage is taken and a task queues for one
C1_Witness ==
    /\ args.max_worker >= 1
    /\ Cardinality(Holders(dst)) = args.max_worker
    /\ dwaiters # <<>>
    /\ \E k \in 1..Len(dst) : dst[k] = "fetching"

\* C2: once the song-page stage has ended well, songs is as long as the
\* song-page URLs and its i-th entry is the mapping parsed from the page of
\* the i-th URL, whatever the order in which the fetches ended.
C2_SongsInInputOrder ==
    SongsParsed =>
        /\ Len(songs) = Len(song_links)
        /\ \A k \in 1..Len(song_links) :
              songs[k] = song_download_page_handler(WebSongPage(song_links[k]))

\* the stage has ended for two songs whose pages differ
C2_Witness ==
    /\ pc = "ValidateFormat"
    /\ Len(songs) = 2
    /\ songs[1] # songs[2]

\* the songs, by what their pages hold, that lack the requested format
LackingFormat ==
    {k \in 1..Len(song_links) :
        args.format \notin DOMAIN song_download_page_handler(WebSongPage(song_links[k]))}

\* C3: when the mapping of at least one song lacks the requested format, the
\* run ends with an error at the format check: no download task exists or
\* holds a permit, no file is written and no directory is made, however many
\* other songs have the format.
C3_FormatCheckFailsFast ==
    (SongsParsed /\ LackingFormat # {}) =>
        /\ pc = "ValidateFormat"
        /\ exit_status # "success"
        /\ dst = <<>> /\ dsem = 0 /\ dwaiters = <<>>
        /\ dirs = {}
        /\ DOMAIN files = {}

\* the run has ended at the format check, one song having the format and
\* another one lacking it
C3_Witness ==
    /\ exc = "SystemExit" /\ exit_status = "failure"
    /\ Len(songs) = 2
    /\ Cardinality(LackingFormat) = 1

\* C4 (as claimed): when a download task fails, the tasks in flight still
\* end and write their files, and the failure is reported only once no task
\* is running, abandoned or cancelled.
C4_FailureReportedAfterDrain ==
    (pc = "GatherDownloads" /\ exit_status = "failure") =>
        \A k \in 1..Len(dst) :
            /\ dst[k] \in {"ok", "failed"}
            /\ dst[k] = "ok" => song_path(album_dir, target_link(k)) \in DOMAIN files

\* what the response of a fetch declares against what it holds
DeclaredLengthDiffers(r) ==
    /\ "Content-Length" \in DOMAIN r.headers
    /\ r.headers["Content-Length"] # Len(r.content)

\* task i leaves its fetch in this step
DownloadEnds(i) == dst[i] = "fetched" /\ dst'[i] \in {"ok", "failed"}

\* C5: a file is written only by a download task whose fetch returned and
\* whose content-length check passed.  A response whose declared
\* content-length differs from the bytes received makes the task fail with
\* nothing written; a response without the header, or with the right one, has
\* exactly its bytes written to <album_dir>/<song name>.
C5_WriteOnlyAfterCheck ==
    [][ /\ \A i \in 1..Len(dst) :
              DownloadEnds(i) =>
                  IF dfetch[i] = RequestException \/ DeclaredLengthDiffers(dfetch[i])
                  THEN dst'[i] = "failed" /\ files' = files
                  ELSE LET path == album_dir \o <<song_name(target_link(i))>>
                       IN  /\ dst'[i] = "ok"
                           /\ DOMAIN files' = DOMAIN files \cup {path}
                           /\ files'[path] = dfetch[i].content
                           /\ \A q \in DOMAIN files \ {path} : files'[q] = files[q]
        /\ files' # files => \E i \in 1..Len(dst) : DownloadEnds(i) /\ dst'[i] = "ok"
      ]_vars

\* one file is written with the bytes of its response, and the one task
\* that failed did so on a content-length mismatch and wrote nothing
C5_Witness ==
    /\ gather_exc = "ValueError"
    /\ \E i, j \in 1..Len(dst) :
          /\ dst[i] = "ok" /\ dst[j] = "failed"
          /\ \A k \in 1..Len(dst) : dst[k] = "failed" => k = j
          /\ song_path(album_dir, target_link(i)) \in DOMAIN files
          /\ files[song_path(album_dir, target_link(i))] = <<255>>
          /\ song_path(album_dir, target_link(j)) \notin DOMAIN files

DownloadedAlbum == <<"d","o","w","n","l","o","a","d","e","d","_","a","l","b","u","m">>

\* C6 (as claimed): the files go to <save-dir>/<cleaned title>, or to
\* <save-dir>/downloaded_album when the title is empty, and never into
\* <save-dir> itself.
C6_DestinationDirectory ==
    pc \in {"DownloadAll", "GatherDownloads", "Report", "Done"} =>
        /\ album_dir =
              IF album_title = <<>>
              THEN Append(args.save_dir, DownloadedAlbum)
              ELSE Append(args.save_dir, file_name_cleaner(album_title, DefaultReplaceChar))
        /\ album_dir # args.save_dir
        /\ \A q \in DOMAIN files : SubSeq(q, 1, Len(q) - 1) # args.save_dir

\* C7: when the fetch of the album page fails, the run ends with an error at
\* its first step: no song-page task and no download task is created, no
\* directory is made and no file is written.
C7_AlbumFetchFailureAborts ==
    album_fetch = "exception" =>
        /\ pc = "FetchAlbumPage"
        /\ exc = "RequestException"
        /\ exit_status # "success"
        /\ pst = <<>> /\ pfetch = <<>>
        /\ dst = <<>> /\ dfetch = <<>>
        /\ dirs = {}
        /\ DOMAIN files = {}

\* the run has ended on the failed fetch of the album page
C7_Witness ==
    /\ album_fetch = "exception"
    /\ pc = "FetchAlbumPage"
    /\ exit_status = "failure"

DownloadFailed == \E k \in 1..Len(dst) : dst[k] = "failed"

\* C8: when a file download fails, the run ends in failure: it never gets to
\* the Report step ("Download completed"), the process does not end with
\* success, and the run does not stop before it has ended in failure.
C8_DownloadFailureFailsRun ==
    DownloadFailed =>
        /\ pc = "GatherDownloads"
        /\ exit_status # "success"
        /\ exit_status = "failure" \/ ENABLED Next

\* the run has ended in failure on a failed download, a sibling having
\* written its file
C8_Witness ==
    /\ DownloadFailed
    /\ exit_status = "failure"
    /\ \E k \in 1..Len(dst) : dst[k] = "ok"

Ended == exit_status # "running"

AlbumFetchFailed == album_fetch = "exception"

SongFetchFailed == \E k \in 1..Len(pfetch) : pfetch[k] = "exception"

\* C9 (as claimed): the process ends with an error when the requested format
\* is unavailable for a song or the album page cannot be fetched, and with
\* success in every other run.
C9_ExitStatusAsClaimed ==
    Ended =>
        (exit_status = "failure" <=> (AlbumFetchFailed \/ LackingFormat # {}))

\* C9 (amended): the process ends with an error when the album page cannot
\* be fetched, when the fetch of a song page fails, when the requested format
\* is unavailable for a song, or when a file download fails; it ends with
\* success only when the run has reached the Report step, which every other
\* run that ends has.
C9_ExitStatus ==
    Ended =>
        /\ exit_status = "failure" <=>
               \/ AlbumFetchFailed
               \/ SongFetchFailed
               \/ LackingFormat # {}
               \/ DownloadFailed
        /\ exit_status = "success" <=> pc = "Done"

\* a run that has ended with an error although the album page was fetched
\* and every song has the requested format
C9_Witness ==
    /\ exit_status = "failure"
    /\ ~AlbumFetchFailed
    /\ LackingFormat = {}
    /\ DownloadFailed

\* the album page was fetched and lists no song: it has no song-list table,
\* or no row of the table has a download link
EmptySongList ==
    /\ album_fetch = "response"
    /\ \/ ~album_page.has_table
       \/ \A k \in 1..Len(album_page.rows) : album_page.rows[k] = NoElement

\* C10: for an album page with an empty song list, songs is empty, the format
\* check passes, no fetch is started and no file written by the download
\* stage, and the run ends reporting success: it never fails, and it does
\* not stop before it has reported success.
C10_EmptyAlbumSucceeds ==
    EmptySongList =>
        /\ exc = "none" /\ exit_status # "failure"
        /\ pc # "ParseAlbum" => (song_links = <<>> /\ pst = <<>>)
        /\ songs = <<>>
        /\ dst = <<>> /\ dfetch = <<>>
        /\ DOMAIN files = {}
        /\ (pc = "Done" /\ exit_status = "success") \/ ENABLED Next

\* the run has ended well for an album whose table has rows, none of them
\* with a download link
C10_Witness ==
    /\ pc = "Done" /\ exit_status = "success"
    /\ album_page.has_table
    /\ Len(album_page.rows) >= 1
    /\ EmptySongList

\* the site-root-prefixed links of the rows after the first (header) row that
\* have a download link, in row order
NonHeaderRowLinks(html_content) ==
    IF ~html_content.has_table \/ html_content.rows = <<>> THEN <<>>
    ELSE LET hrefs == SelectSeq(Tail(html_content.rows), LAMBDA x : x # NoElement)
         IN  [k \in 1..Len(hrefs) |-> KHINSIDER_SITE_ROOT \o hrefs[k]]

\* C11 (as claimed): the song links are, in row order, the site-root-prefixed
\* links of the non-header rows of the song-list table that have a download
\* link: the first (header) row gives no link even when it has such an
\* element, rows without the element are skipped, and a page without the
\* table gives no link.
C11_HeaderRowSkipped ==
    pc \notin {"FetchAlbumPage", "ParseAlbum"} =>
        song_links = NonHeaderRowLinks(album_page)

\* the links of a song page: the hrefs of the parents of its download
\* buttons, for the parents that have one, in document order
PageLinks(html_content) ==
    LET at == {k \in 1..Len(html_content) : html_content[k] # NoHref}
        nth(n) == CHOOSE k \in at : Cardinality({m \in at : m < k}) = n - 1
    IN  [n \in 1..Cardinality(at) |-> html_content[nth(n)]]

\* the lowercased extension of a link: what follows the last dot of the
\* link's last path component, in lower case; none when the component has no
\* dot or nothing but dots before its last one
Extension(link) ==
    LET slashes == {k \in 1..Len(link) : link[k] = "/"}
        start == IF slashes = {} THEN 1
                 ELSE 1 + CHOOSE k \in slashes : \A m \in slashes : m <= k
        dots == {k \in start..Len(link) : link[k] = "."}
        last == CHOOSE k \in dots : \A m \in dots : m <= k
    IN  IF dots = {} \/ \A k \in start..(last - 1) : link[k] = "."
        THEN <<>>
        ELSE [k \in 1..(Len(link) - last) |-> lower_char(link[last + k])]

\* C12: for a song page with k download buttons whose parent has a link, the
\* mapping returned has at most k entries, and fewer than k exactly when two
\* of the links have the same lowercased extension; every key is the
\* lowercased extension of its value, every link's extension is a key, and
\* the value of a key is the last link with that extension.
C12_FormatMapping ==
    (fn = "song_download_page_handler" /\ fn_output # <<>>) =>
        LET links == PageLinks(fn_input.html_content)
            k == Len(links)
            mapping == fn_output[1]
            repeats == \E i, j \in 1..k :
                          i < j /\ Extension(links[i]) = Extension(links[j])
        IN  /\ Cardinality(DOMAIN mapping) <= k
            /\ Cardinality(DOMAIN mapping) < k <=> repeats
            /\ \A f \in DOMAIN mapping : f = Extension(mapping[f])
            /\ \A i \in 1..k :
                  /\ Extension(links[i]) \in DOMAIN mapping
                  /\ mapping[Extension(links[i])] # links[i] =>
                        \E j \in (i + 1)..k :
                            /\ Extension(links[j]) = Extension(links[i])
                            /\ mapping[Extension(links[i])] = links[j]
                            /\ \A n \in (j + 1)..k :
                                  Extension(links[n]) # Extension(links[i])

\* a page of three buttons, one of them without a link and the other two
\* with different links of the same lowercased extension, has been parsed
C12_Witness ==
    /\ fn = "song_download_page_handler" /\ fn_output # <<>>
    /\ Len(fn_input.html_content) = 3
    /\ Len(PageLinks(fn_input.html_content)) = 2
    /\ PageLinks(fn_input.html_content)[1] # PageLinks(fn_input.html_content)[2]
    /\ DOMAIN fn_output[1] = {<<"m", "p", "3">>}
    /\ fn_output[1][<<"m", "p", "3">>] = PageLinks(fn_input.html_content)[2]

\* the unsafe characters: < > : " / \ | ? * NUL LF TAB CR '
UnsafeCharacters ==
    {"<", ">", ":", "\"", "/", "\\", "|", "?", "*", "NUL", "LF", "TAB", "CR", "'"}

HasUnsafeCharacter(text) == \E k \in 1..Len(text) : text[k] \in UnsafeCharacters

\* C13 (as claimed): for every file name and every replace_char, what
\* file_name_cleaner returns holds no unsafe character.
C13_OutputHasNoUnsafeCharacter ==
    (fn = "file_name_cleaner" /\ fn_output # <<>>) =>
        ~HasUnsafeCharacter(fn_output[1])

\* C14 (as claimed): file_name_cleaner applied, with the same replace_char,
\* to what it returned, returns it unchanged.
C14_CleanerIdempotent ==
    (fn = "file_name_cleaner" /\ Len(fn_output) >= 2) =>
        fn_output[2] = fn_output[1]

\* C18 (as claimed): the download tasks of two different songs write to
\* different paths.
C18_DistinctTargetPaths ==
    (fn = "download_single_song" /\ Len(fn_output) = 2) =>
        (fn_input.song_urls[1] # fn_input.song_urls[2] => fn_output[1] # fn_output[2])

ParserStageStarted == pc \notin {"FetchAlbumPage", "ParseAlbum"}

DownloadStageStarted == pc \in {"DownloadAll", "GatherDownloads", "Report", "Done"}

UnitEnded(st, k) == st[k] \in {"ok", "failed", "cancelled"}

\* free permits + units holding a permit = limit, and every permit is free
\* once every unit has ended
PermitsBalanced(value, st) ==
    /\ value >= 0
    /\ value + Cardinality({k \in 1..Len(st) :
                              st[k] \in {"acquired", "fetching", "fetched"}})
          = args.max_worker
    /\ (\A k \in 1..Len(st) : UnitEnded(st, k)) => value = args.max_worker

\* a unit starts a fetch only as it takes its permit or is handed one, and
\* once its fetch has returned it starts no other: it ends, and stays ended
OneFetchPerPermit(st, st2) ==
    \A k \in (DOMAIN st) \cap (DOMAIN st2) :
        /\ (st[k] # "fetching" /\ st2[k] = "fetching") => st[k] \in {"new", "acquired"}
        /\ st[k] = "fetched" => st2[k] \in {"fetched", "ok", "failed", "cancelled"}
        /\ UnitEnded(st, k) => st2[k] = st[k]

\* C15: in both stages, in every state, free permits + units holding a
\* permit = limit; a unit fetches once under the permit it took and gives the
\* permit back when it ends, whether it returns, fails (fetch error,
\* content-length mismatch) or is cancelled; once every unit of a stage has
\* ended, all `limit` permits are free again.
C15_PermitAccounting ==
    /\ [](ParserStageStarted => PermitsBalanced(psem, pst))
    /\ [](DownloadStageStarted => PermitsBalanced(dsem, dst))
    /\ [][OneFetchPerPermit(pst, pst') /\ OneFetchPerPermit(dst, dst')]_vars

\* with one permit for two downloads, the first was written, the second was
\* handed the permit and failed on its content length, and the permit is free
C15_Witness ==
    /\ args.max_worker = 1
    /\ dst = <<"ok", "failed">>
    /\ gather_exc = "ValueError"
    /\ dsem = 1 /\ psem = 1

\* the positions of main in the order of its statements: the gather of the
\* song-page tasks is the end of ParseAlbum, the gather of the download tasks
\* the end of DownloadAll
Steps ==
    <<"FetchAlbumPage", "ParseAlbum", "GatherSongs", "ValidateFormat",
      "PrepareDestination", "DownloadAll", "GatherDownloads", "Report", "Done">>

StepIndex(p) == CHOOSE k \in 1..Len(Steps) : Steps[k] = p

\* every song page has been fetched and parsed, and every song has the
\* requested format
ParsedAndValidated ==
    /\ \A k \in 1..Len(pst) : pst[k] = "ok" /\ pfetch[k] = "response"
    /\ Len(songs) = Len(pst)
    /\ \A k \in 1..Len(songs) : args.format \in DOMAIN songs[k]

\* C16: main goes through FetchAlbumPage, ParseAlbum, ValidateFormat,
\* PrepareDestination, DownloadAll, Report in this order, one step at a time
\* and never back; validation starts only when every song-page fetch has
\* resolved; no download task exists before validation has passed for every
\* song; the destination directory is made after validation and before any
\* file is written.
C16_StepsInOrder ==
    /\ [][pc' # pc => StepIndex(pc') = StepIndex(pc) + 1]_vars
    /\ [](StepIndex(pc) >= StepIndex("ValidateFormat") =>
              \A k \in 1..Len(pst) : pst[k] = "ok")
    /\ []((dst # <<>> \/ dfetch # <<>>) =>
              (ParsedAndValidated /\ StepIndex(pc) > StepIndex("DownloadAll")))
    /\ [](dirs # {} =>
              (ParsedAndValidated /\ StepIndex(pc) > StepIndex("PrepareDestination")))
    /\ [](DOMAIN files # {} =>
              (album_dir \in dirs /\ StepIndex(pc) > StepIndex("DownloadAll")))
    /\ [][dirs' # dirs => (pc = "PrepareDestination" /\ DOMAIN files = {} /\ dst = <<>>)]_vars

\* main has gone through all its steps for two songs, the directory made
\* and a file written
C16_Witness ==
    /\ pc = "Done"
    /\ Len(dst) = 2
    /\ album_dir \in dirs
    /\ DOMAIN files # {}

\* C17: when the fetch of a song page fails, the run ends with an error in
\* the song-page stage: the format check is not run, no directory is made,
\* no download task exists, no file is fetched or written, and the run does
\* not stop before it has ended in failure.
C17_SongFetchFailureAborts ==
    SongFetchFailed =>
        /\ pc = "GatherSongs"
        /\ exc \in {"none", "RequestException"}
        /\ exit_status # "success"
        /\ songs = <<>>
        /\ dst = <<>> /\ dfetch = <<>> /\ dsem = 0 /\ dwaiters = <<>>
        /\ album_dir = NoPath /\ dirs = {}
        /\ DOMAIN files = {}
        /\ exit_status = "failure" \/ ENABLED Next

\* the run has ended in failure on the failed fetch of one song page, the
\* page of another song having been parsed
C17_Witness ==
    /\ SongFetchFailed
    /\ exit_status = "failure" /\ exc = "RequestException"
    /\ \E k \in 1..Len(pst) : pst[k] = "ok" /\ presult[k] # NoMapping

\* a unit that waits for a permit goes on waiting until it is handed one
WaitEndsWithPermit(st, st2) ==
    \A k \in (DOMAIN st) \cap (DOMAIN st2) :
        st[k] = "waiting" => st2[k] \in {"waiting", "acquired"}

\* the run has ended after the Report step, or in failure
EndedAsReportOrFailure ==
    exit_status # "running" =>
        \/ pc = "Done" /\ exit_status = "success"
        \/ pc # "Done" /\ exit_status = "failure"

WaitEndsWithPermitOrFailure(st, st2) ==
    \A k \in (DOMAIN st) \cap (DOMAIN st2) :
        st[k] = "waiting" =>
            \/ st2[k] \in {"waiting", "acquired"}
            \/ st2[k] = "cancelled" /\ exc # "none" /\ exit_status' = "failure"

\* the units that wait are the queue of the semaphore, and a unit waits only
\* while every permit is taken
WaitOnlyWhileAllTaken(value, waiters, st) ==
    /\ {k \in 1..Len(st) : st[k] = "waiting"} = {waiters[n] : n \in 1..Len(waiters)}
    /\ waiters # <<>> =>
          /\ value = 0
          /\ Cardinality({k \in 1..Len(st) :
                             st[k] \in {"acquired", "fetching", "fetched"}})
                = args.max_worker

C20_ZeroLimitDeadlocks ==
    (args.max_worker = 0 /\ ParserStageStarted /\ song_links # <<>>) =>
        /\ pc = "GatherSongs"
        /\ exc = "none" /\ gather_exc = "none"
        /\ exit_status = "running"
        /\ psem = 0
        /\ \A k \in 1..Len(pst) : pst[k] \in {"new", "waiting"} /\ pfetch[k] = "none"
        /\ songs = <<>> /\ dst = <<>> /\ DOMAIN files = {}
        /\ (\A k \in 1..Len(pst) : pst[k] = "waiting") => ~ENABLED Next

\* two units are queued for a permit that does not exist, and no step can
\* be taken
C20_Witness ==
    /\ args.max_worker = 0
    /\ pc = "GatherSongs"
    /\ Len(pst) = 2
    /\ pwaiters = <<1, 2>>
    /\ exit_status = "running"
    /\ ~ENABLED Next

====
